---- MODULE Spec2Model ----
(***************************************************************************)
(* A model of the SwiftGRIB comparison scripts:                            *)
(*   compare_outputs.py       load_json, compare_values, main              *)
(*   verify_wind_direction.py load_json (second copy)                      *)
(*   compare_pygrib.py        main (the record extractor)                  *)
(*   check_wind.py            the compass classification                   *)
(*                                                                         *)
(* Conventions.                                                            *)
(*  - A text is a sequence of symbols.  A symbol is a one-character string *)
(*    ("[", "]", ",", " ", "\n", "n" for a character of log noise, "1" for *)
(*    a number literal) or the name of a record of the universe Rec, which *)
(*    stands for the JSON object literal of that record.                   *)
(*  - A Python dict is a function from key strings to values.              *)
(*  - A float is an integer count of micro-units (1e-6): the tolerance     *)
(*    1e-6 is 1 and the tolerance 1e-4 is 100.  Rounding of binary         *)
(*    floating point is not modelled.                                      *)
(*  - An uncaught Python exception ends the run: pc = "crashed" and err    *)
(*    names the exception.                                                 *)
(***************************************************************************)
EXTENDS Integers, Sequences, FiniteSets, TLC

VARIABLES
  \* ---- compare_outputs.py main ----
  pc,            \* position of main: load_pygrib, load_swift, count, loop,
                 \* first_message, first20, done, aborted (the return of
                 \* line 64), crashed
  err,           \* the uncaught exception, "none" while there is none
  pygrib_data,   \* result of load_json("pygrib_output.json")
  swift_data,    \* result of load_json("swiftgrib_output.json")
  i,             \* loop index of the comparison pass (0-based, as in the code)
  all_match,     \* main's all_match flag
  issues,        \* main's issues dict: category -> list of descriptions
  out,           \* the lines printed so far
  cv_calls,      \* history: number of calls of compare_values
  had_marker,    \* history: file -> kind of the text read ("unread" before)
  \* ---- load_json, both copies, on one text ----
  content,       \* the text of the file
  json_co,       \* what compare_outputs.load_json hands to json.loads
  json_vw,       \* what verify_wind_direction.load_json hands to json.loads
  loaded,        \* outcome of compare_outputs.load_json: "pending", "value", "error"
  \* ---- compare_values on one pair of arrays ----
  cmp_a, cmp_b, cmp_tol, cmp_res,
  \* ---- compare_pygrib.py main ----
  xpc,           \* position of the extractor: loop, done, crashed
  grbs,          \* number of messages of the GRIB file
  xi,            \* enumerate index of the extractor's loop
  info,          \* the record built for the last message
  results,       \* the key sets of the records appended so far
  \* ---- check_wind.py compass classification ----
  dir_sydney,    \* the direction, in half degrees
  compass,       \* the sector chosen, "unset" before
  \* ---- the direction calculation of check_wind.py and of
  \* ---- verify_wind_direction.py on one pair (u, v) ----
  wind_u, wind_v,  \* the components handed to both calculations
  direction_cw,    \* direction returned by check_wind.calc_wind_direction
  direction_vw,    \* direction left by the inline lines of verify_wind_direction
  polar_done       \* which of the two calculations have run: "calc", "inline"

mainVars == <<pc, err, pygrib_data, swift_data, i, all_match, issues, out,
              cv_calls, had_marker>>
loadVars == <<content, json_co, json_vw, loaded>>
cmpVars  == <<cmp_a, cmp_b, cmp_tol, cmp_res>>
extVars  == <<xpc, grbs, xi, info, results>>
compassVars == <<dir_sydney, compass>>
polarVars == <<wind_u, wind_v, direction_cw, direction_vw, polar_done>>
windVars == <<compassVars, polarVars>>
vars == <<mainVars, loadVars, cmpVars, extVars, windVars>>

----------------------------------------------------------------------------
(* Bounds of the model. *)

\* Longest message sequence a payload file of the comparison run holds.
MaxMsgs == 2
\* Longest text (in symbols) given to the two load_json copies.
MaxLen == 5
\* Longest array given to compare_values, and the largest element value
\* and tolerance.
MaxArr == 2
MaxVal == 2
\* Largest number of messages of the GRIB file read by the extractor.
MaxGrbs == 53

----------------------------------------------------------------------------
(* Generic helpers. *)

Abs(x) == IF x < 0 THEN -x ELSE x
Min(a, b) == IF a < b THEN a ELSE b

\* All sequences over S of length at most n.
SeqsUpTo(S, n) == UNION {[1..k -> S] : k \in 0..n}

----------------------------------------------------------------------------
(* load_json: the payload extractor (compare_outputs.py 7-28 and            *)
(* verify_wind_direction.py 7-22).                                         *)

\* The characters str.strip() removes.
Whitespace == {" ", "\t", "\r", "\n", "\f"}

\* Index of the first "\n" of s, 0 when there is none.
FirstNewline(s) ==
  IF \E p \in 1..Len(s) : s[p] = "\n"
  THEN CHOOSE p \in 1..Len(s) : s[p] = "\n" /\ \A q \in 1..(p-1) : s[q] # "\n"
  ELSE 0

\* content.split('\n'): the text between line breaks; a text without a
\* line break (the empty text included) is one line.
RECURSIVE SplitLines(_)
SplitLines(s) ==
  LET p == FirstNewline(s)
  IN IF p = 0 THEN <<s>>
     ELSE <<SubSeq(s, 1, p - 1)>> \o SplitLines(SubSeq(s, p + 1, Len(s)))

\* line.strip(): the line without its leading and trailing whitespace.
RECURSIVE Strip(_)
Strip(line) ==
  IF line = <<>> THEN <<>>
  ELSE IF line[1] \in Whitespace THEN Strip(Tail(line))
  ELSE IF line[Len(line)] \in Whitespace THEN Strip(SubSeq(line, 1, Len(line) - 1))
  ELSE line

\* A bug the marker test could have: any line that starts with "[" counts.
IsMarkerStartsWith(stripped) == stripped # <<>> /\ stripped[1] = "["

\* stripped == '['
IsMarker(stripped) == stripped = <<"[">>

\* A bug the scan could have: the marker line itself is not kept.
RECURSIVE ScanDropMarker(_, _, _, _)
ScanDropMarker(lines, k, found_json, json_lines) ==
  IF k > Len(lines) THEN json_lines
  ELSE IF ~found_json
       THEN IF IsMarker(Strip(lines[k]))
            THEN ScanDropMarker(lines, k + 1, TRUE, json_lines)
            ELSE ScanDropMarker(lines, k + 1, FALSE, json_lines)
       ELSE ScanDropMarker(lines, k + 1, TRUE, Append(json_lines, lines[k]))

\* compare_outputs.py 17-25: the loop over the lines, from line k on, with
\* the loop's two variables.
RECURSIVE ScanCO(_, _, _, _)
ScanCO(lines, k, found_json, json_lines) ==
  IF k > Len(lines) THEN json_lines
  ELSE IF ~found_json
       THEN IF IsMarker(Strip(lines[k]))
            THEN ScanCO(lines, k + 1, TRUE, Append(json_lines, lines[k]))
            ELSE ScanCO(lines, k + 1, FALSE, json_lines)
       ELSE ScanCO(lines, k + 1, TRUE, Append(json_lines, lines[k]))

\* verify_wind_direction.py 14-21: the same loop of the second copy.
RECURSIVE ScanVW(_, _, _, _)
ScanVW(lines, k, found_json, json_lines) ==
  IF k > Len(lines) THEN json_lines
  ELSE LET stripped == Strip(lines[k])
       IN IF found_json
          THEN ScanVW(lines, k + 1, found_json, Append(json_lines, lines[k]))
          ELSE IF stripped = <<"[">>
               THEN ScanVW(lines, k + 1, TRUE, Append(json_lines, lines[k]))
               ELSE ScanVW(lines, k + 1, found_json, json_lines)

\* '\n'.join(json_lines)
RECURSIVE Join(_)
Join(ls) ==
  IF ls = <<>> THEN <<>>
  ELSE IF Len(ls) = 1 THEN ls[1]
  ELSE ls[1] \o <<"\n">> \o Join(Tail(ls))

\* What compare_outputs.load_json passes to json.loads (lines 13-27).
JsonContentCO(text) == Join(ScanCO(SplitLines(text), 1, FALSE, <<>>))

\* What verify_wind_direction.load_json passes to json.loads (lines 11-22).
JsonContentVW(text) == Join(ScanVW(SplitLines(text), 1, FALSE, <<>>))

----------------------------------------------------------------------------
(* The record universe and json.loads.                                     *)

\* The 10-element samples and the statistics of the reference record.
BaseValues == <<10, 20>>

\* A record as compare_pygrib.py writes it for a message selected for
\* exhaustive comparison; only the keys compare_outputs.py reads in its
\* comparison pass, and "level" of the first-message table.
Base ==
  [parameterName |-> "U", allValues |-> BaseValues, first10 |-> BaseValues,
   last10 |-> BaseValues, min |-> 10, max |-> 20, mean |-> 15,
   Ni |-> 2, Nj |-> 1, indicatorOfParameter |-> 33, level |-> 10]

\* d without key k.
Without(d, k) == [x \in DOMAIN d \ {k} |-> d[x]]

\* The records a payload file may hold, by name.  Each differs from Base in
\* one respect.
RecNames == {"Base", "MeanOff", "ValOff", "ShortAll", "Sampled", "ShortSample",
             "NoNi", "NoMin"}

Rec(name) ==
  CASE name = "Base"        -> Base
    [] name = "MeanOff"     -> [Base EXCEPT !.mean = 215]
    [] name = "ValOff"      -> [Base EXCEPT !.allValues = <<10, 22>>]
    [] name = "ShortAll"    -> [Base EXCEPT !.allValues = <<10>>]
    [] name = "Sampled"     -> Without(Base, "allValues")
    [] name = "ShortSample" -> [Without(Base, "allValues") EXCEPT !.first10 = <<10>>]
    [] name = "NoNi"        -> Without(Base, "Ni")
    [] name = "NoMin"       -> Without(Base, "min")

\* JSON's insignificant whitespace.
JsonWs == {" ", "\t", "\r", "\n"}

\* Index of the first symbol of s at or after k that is not whitespace
\* (Len(s) + 1 when there is none).
RECURSIVE SkipWs(_, _)
SkipWs(s, k) ==
  IF k <= Len(s) /\ s[k] \in JsonWs THEN SkipWs(s, k + 1) ELSE k

\* The value of an atom of the text: the dict of an object literal, the
\* symbol itself for a number literal.
AtomVal(sym) == IF sym \in RecNames THEN Rec(sym) ELSE sym

ParseFail == [ok |-> FALSE, next |-> 0, val |-> <<>>]

\* json.loads' grammar on symbols: value ::= atom | "[" ws "]" |
\* "[" ws value ws ("," ws value ws)* "]".  ParseValue parses one value that
\* starts at k; ParseItems parses the rest of an array whose items so far
\* are acc and whose next item starts at k.
RECURSIVE ParseValue(_, _)
RECURSIVE ParseItems(_, _, _)
ParseValue(s, k) ==
  IF k > Len(s) THEN ParseFail
  ELSE IF s[k] = "1" \/ s[k] \in RecNames
       THEN [ok |-> TRUE, next |-> k + 1, val |-> AtomVal(s[k])]
  ELSE IF s[k] = "["
       THEN LET j == SkipWs(s, k + 1)
            IN IF j <= Len(s) /\ s[j] = "]"
               THEN [ok |-> TRUE, next |-> j + 1, val |-> <<>>]
               ELSE ParseItems(s, j, <<>>)
  ELSE ParseFail

ParseItems(s, k, acc) ==
  LET v == ParseValue(s, k)
      j == SkipWs(s, v.next)
  IN IF ~v.ok \/ j > Len(s) THEN ParseFail
     ELSE IF s[j] = ","
          THEN ParseItems(s, SkipWs(s, j + 1), Append(acc, v.val))
     ELSE IF s[j] = "]"
          THEN [ok |-> TRUE, next |-> j + 1, val |-> Append(acc, v.val)]
     ELSE ParseFail

\* json.loads(text): one value between optional whitespace, and nothing
\* else; ok = FALSE stands for json.JSONDecodeError.
JsonLoads(text) ==
  LET v == ParseValue(text, SkipWs(text, 1))
  IN IF v.ok /\ SkipWs(text, v.next) > Len(text)
     THEN [ok |-> TRUE, val |-> v.val]
     ELSE [ok |-> FALSE, val |-> <<>>]

\* load_json of compare_outputs.py: the scan, then json.loads (line 28).
LoadJson(text) == JsonLoads(JsonContentCO(text))

----------------------------------------------------------------------------
(* compare_values (compare_outputs.py 30-49).                              *)

\* tolerance=1e-6, the default every call in main uses, in micro-units.
DefaultTolerance == 1
\* The mean's tolerance 1e-4, in micro-units.
MeanTolerance == 100

\* A bug the threshold test could have: a difference equal to the
\* tolerance counts as differing.
ExceedsOrEqual(diff, tolerance) == diff >= tolerance

\* diff > tolerance (line 44)
Exceeds(diff, tolerance) == diff > tolerance

\* The loop of lines 39-45 from 1-based position k on; idx is the 0-based
\* max_diff_idx and ndiffs is len(diffs).
RECURSIVE CompareLoop(_, _, _, _, _, _, _)
CompareLoop(pv, sv, tolerance, k, max_diff, idx, ndiffs) ==
  IF k > Len(pv)
  THEN [max_diff |-> max_diff, max_diff_idx |-> idx, ndiffs |-> ndiffs]
  ELSE LET diff == Abs(pv[k] - sv[k])
           bigger == diff > max_diff
       IN CompareLoop(pv, sv, tolerance, k + 1,
                      IF bigger THEN diff ELSE max_diff,
                      IF bigger THEN k - 1 ELSE idx,
                      IF Exceeds(diff, tolerance) THEN ndiffs + 1 ELSE ndiffs)

\* compare_values(pygrib_vals, swift_vals, tolerance): the pair (pass,
\* detail), the detail text as the fields it is formatted from.
CompareValues(pygrib_vals, swift_vals, tolerance) ==
  IF Len(pygrib_vals) # Len(swift_vals)
  THEN [match |-> FALSE, detail |-> "Length mismatch", max_diff |-> 0,
        max_diff_idx |-> 0, ndiffs |-> 0]
  ELSE LET r == CompareLoop(pygrib_vals, swift_vals, tolerance, 1, 0, 0, 0)
       IN IF r.ndiffs > 0
          THEN [match |-> FALSE, detail |-> "Max diff, values differ",
                max_diff |-> r.max_diff, max_diff_idx |-> r.max_diff_idx,
                ndiffs |-> r.ndiffs]
          ELSE [match |-> TRUE, detail |-> "Max diff",
                max_diff |-> r.max_diff, max_diff_idx |-> r.max_diff_idx,
                ndiffs |-> 0]

----------------------------------------------------------------------------
(* The input files of the comparison run.                                  *)

\* Records of the reference file (written by compare_pygrib.py, which
\* always writes the samples and the statistics) and of the file of the
\* system under test.
PygribNames == {"Base", "ShortAll", "Sampled", "NoNi"}
SwiftNames == RecNames

\* The items of a pretty-printed array from item k on: one per line,
\* indented, separated by commas.
RECURSIVE ItemLines(_, _)
ItemLines(d, k) ==
  IF k > Len(d) THEN <<>>
  ELSE <<" ", d[k]>> \o (IF k < Len(d) THEN <<",">> ELSE <<>>) \o <<"\n">>
       \o ItemLines(d, k + 1)

\* json.dumps(results, indent=2) followed by print's line break.
Payload(d) ==
  IF d = <<>> THEN <<"[", "]", "\n">>
  ELSE <<"[", "\n">> \o ItemLines(d, 1) \o <<"]", "\n">>

\* The same array written on one line.
RECURSIVE ItemsInline(_, _)
ItemsInline(d, k) ==
  IF k > Len(d) THEN <<>>
  ELSE <<d[k]>> \o (IF k < Len(d) THEN <<",", " ">> ELSE <<>>)
       \o ItemsInline(d, k + 1)

OneLine(d) == <<"[">> \o ItemsInline(d, 1) \o <<"]", "\n">>

\* The texts a file may hold for the message sequences over names: the
\* payload alone (an empty sequence is dumped as "[]" on one line), the
\* payload after a line of build output and with its marker line indented,
\* the payload on one line, an empty array on two lines, and no payload.
FileSet(names) ==
  LET datas == SeqsUpTo(names, MaxMsgs)
  IN {Payload(d) : d \in datas}
       \cup {<<"n", "\n", " ">> \o Payload(d) : d \in datas}
       \cup {OneLine(d) : d \in {x \in datas : Len(x) = 1}}
       \cup {<<"[", "\n", "]", "\n">>, <<"n", "\n">>}

\* Whether some line of the text consists of one "[" and whitespace.
HasMarkerLine(text) ==
  \E k \in 1..Len(SplitLines(text)) :
     SelectSeq(SplitLines(text)[k], LAMBDA c : c \notin Whitespace) = <<"[">>

\* The kind of a text: it has a marker line; it has none but is a JSON
\* value as it stands; it has none and is no JSON value.
TextKind(text) ==
  IF HasMarkerLine(text) THEN "marker"
  ELSE IF JsonLoads(text).ok THEN "json_without_marker"
  ELSE "no_json"

----------------------------------------------------------------------------
(* main of compare_outputs.py (lines 51-229).                              *)

\* A printed line: its kind, the message ordinal or row it is about (0 when
\* none) and its variable text.
Line(t, msg, what) == [t |-> t, cat |-> "", msg |-> msg, what |-> what]

\* The line "  - {item}" of a category's section of the summary.
ItemLine(cat, iss) == [t |-> "ITEM", cat |-> cat, msg |-> iss.msg, what |-> iss.what]

\* A discrepancy description: the message's 1-based ordinal and what differs.
Issue(msg, what) == [msg |-> msg, what |-> what]

\* issues = {"values": [], "metadata": [], "grid": [], "time": []}
NoIssues == [values |-> <<>>, metadata |-> <<>>, grid |-> <<>>, time |-> <<>>]

\* The order in which the summary walks issues.items().
Categories == <<"values", "metadata", "grid", "time">>

\* Constants of the report (lines 97, 149, 224).
FirstShown == 5
SummaryShown == 10
TableShown == 20

\* st with a line printed / an issue appended / an exception raised.
Put(st, line) == [st EXCEPT !.out = Append(@, line)]
AddIssue(st, cat, iss) == [st EXCEPT !.issues[cat] = Append(@, iss)]
Raise(st, e) == [st EXCEPT !.err = e]

\* The lines "[j] pygrib: ..., swift: ..." of lines 97-101 from 0-based j
\* on, n = min(5, len(pg_vals)); sg_vals[j] raises IndexError past the end
\* of sg_vals.
RECURSIVE ShowFirst(_, _, _, _, _, _)
ShowFirst(st, pg_vals, sg_vals, j, n, msg_num) ==
  IF j >= n THEN st
  ELSE IF j >= Len(sg_vals) THEN Raise(st, "IndexError")
  ELSE ShowFirst(
         Put(st, Line("ELEM", msg_num,
                      IF Abs(pg_vals[j + 1] - sg_vals[j + 1]) < DefaultTolerance
                      THEN "ok" ELSE "bad")),
         pg_vals, sg_vals, j + 1, n, msg_num)

\* Lines 87-102: the full arrays do not match.
FullMismatch(st, pg, sg, msg_num, detail) ==
  LET st1 == AddIssue([st EXCEPT !.all_match = FALSE], "values",
                      Issue(msg_num, detail))
      st2 == Put(st1, Line("FAIL", msg_num, detail))
  IN ShowFirst(st2, pg.allValues, sg.allValues, 0,
               Min(FirstShown, Len(pg.allValues)), msg_num)

\* Lines 84-119: the comparison of the value arrays of one record pair.
ValuesStage(st, pg, sg, msg_num) ==
  IF "allValues" \in DOMAIN pg /\ "allValues" \in DOMAIN sg
  THEN LET r == CompareValues(pg.allValues, sg.allValues, DefaultTolerance)
           st1 == [st EXCEPT !.cv_calls = @ + 1]
       IN IF ~r.match
          THEN FullMismatch(st1, pg, sg, msg_num, r.detail)
          ELSE Put(st1, Line("OK", msg_num, r.detail))
  ELSE IF "first10" \in DOMAIN pg /\ "first10" \in DOMAIN sg
  THEN LET r1 == CompareValues(pg.first10, sg.first10, DefaultTolerance)
           st1 == [st EXCEPT !.cv_calls = @ + 1]
       IN IF "last10" \notin DOMAIN pg \/ "last10" \notin DOMAIN sg
          THEN Raise(st1, "KeyError")
          ELSE LET r2 == CompareValues(pg.last10, sg.last10, DefaultTolerance)
                   st2 == [st1 EXCEPT !.cv_calls = @ + 1]
               IN IF ~(r1.match /\ r2.match)
                  THEN LET st3 == AddIssue([st2 EXCEPT !.all_match = FALSE],
                                           "values",
                                           Issue(msg_num, "first10/last10 mismatch"))
                           st4 == Put(st3, Line("FAIL", msg_num, "sampled"))
                           st5 == IF ~r1.match
                                  THEN Put(st4, Line("First10", msg_num, r1.detail))
                                  ELSE st4
                       IN IF ~r2.match
                          THEN Put(st5, Line("Last10", msg_num, r2.detail))
                          ELSE st5
                  ELSE Put(st2, Line("OK", msg_num, "sampled"))
  ELSE st

\* One of the three tests of lines 122-127: pg[key] and sg[key] raise
\* KeyError when the key is absent.
StatCheck(st, pg, sg, msg_num, key, tolerance) ==
  IF st.err # "none" THEN st
  ELSE IF key \notin DOMAIN pg \/ key \notin DOMAIN sg THEN Raise(st, "KeyError")
  ELSE IF Abs(pg[key] - sg[key]) > tolerance
       THEN AddIssue(st, "values", Issue(msg_num, key))
       ELSE st

\* Lines 121-127.
StatsStage(st, pg, sg, msg_num) ==
  StatCheck(StatCheck(StatCheck(st, pg, sg, msg_num, "min", DefaultTolerance),
                      pg, sg, msg_num, "max", DefaultTolerance),
            pg, sg, msg_num, "mean", MeanTolerance)

\* pg.get(key) != sg.get(key): an absent key reads as None, which differs
\* from every value and equals None.
GetDiffers(pg, sg, key) ==
  IF key \in DOMAIN pg /\ key \in DOMAIN sg THEN pg[key] # sg[key]
  ELSE (key \in DOMAIN pg) # (key \in DOMAIN sg)

\* Lines 129-131.
GridStage(st, pg, sg, msg_num) ==
  IF st.err # "none" THEN st
  ELSE IF GetDiffers(pg, sg, "Ni") \/ GetDiffers(pg, sg, "Nj")
       THEN AddIssue(st, "grid", Issue(msg_num, "grid size differs"))
       ELSE st

\* Lines 133-135.
ParamStage(st, pg, sg, msg_num) ==
  IF st.err # "none" THEN st
  ELSE IF GetDiffers(pg, sg, "indicatorOfParameter")
       THEN AddIssue(st, "metadata", Issue(msg_num, "parameter ID differs"))
       ELSE st

\* Lines 79-135: the body of the comparison loop for one record pair.
CompareRecord(st, pg, sg, msg_num) ==
  LET st1 == ValuesStage(st, pg, sg, msg_num)
  IN IF st1.err # "none" THEN st1
     ELSE ParamStage(GridStage(StatsStage(st1, pg, sg, msg_num),
                               pg, sg, msg_num),
                     pg, sg, msg_num)

\* Lines 149-150: the items of one category from position k on, at most
\* the first 10.
RECURSIVE ShowItems(_, _, _, _)
ShowItems(st, cat, items, k) ==
  IF k > Len(items) \/ k > SummaryShown THEN st
  ELSE ShowItems(Put(st, ItemLine(cat, items[k])), cat, items, k + 1)

\* Lines 146-152: the sections of the categories from position c on.
RECURSIVE ShowCategories(_, _)
ShowCategories(st, c) ==
  IF c > Len(Categories) THEN st
  ELSE LET cat == Categories[c]
           items == st.issues[cat]
       IN IF items = <<>> THEN ShowCategories(st, c + 1)
          ELSE LET st1 == Put(st, [t |-> "SECTION", cat |-> cat,
                                   msg |-> Len(items), what |-> "Issues"])
                   st2 == ShowItems(st1, cat, items, 1)
                   st3 == IF Len(items) > SummaryShown
                          THEN Put(st2, [t |-> "MORE", cat |-> cat,
                                         msg |-> Len(items) - SummaryShown,
                                         what |-> "more"])
                          ELSE st2
               IN ShowCategories(st3, c + 1)

\* Lines 141-152: the verdict and, on failure, the categorized report.
Verdict(st) ==
  IF st.all_match
  THEN Put(st, Line("ALL_MATCH", 0, "ALL VALUES MATCH"))
  ELSE ShowCategories(Put(st, Line("DISCREPANCIES", 0, "DISCREPANCIES FOUND")), 1)

\* Lines 165-188: the keys of the first-message table.
fields ==
  <<"parameterName", "indicatorOfParameter", "level", "Ni", "Nj", "numValues",
    "min", "max", "mean", "firstLat", "firstLon", "lastLat", "lastLon",
    "latitudeOfFirstGridPoint", "longitudeOfFirstGridPoint",
    "latitudeOfLastGridPoint", "longitudeOfLastGridPoint",
    "year", "month", "day", "hour", "minute">>

\* Lines 191-211: the match column of one row.  Of the keys of the record
\* universe only parameterName holds a string; the others hold numbers.
RowMatch(pg, sg, key) ==
  IF key \notin DOMAIN pg \/ key \notin DOMAIN sg THEN "N/A"
  ELSE IF key # "parameterName"
       THEN IF Abs(pg[key] - sg[key]) < DefaultTolerance THEN "ok" ELSE "bad"
       ELSE IF pg[key] = sg[key] THEN "ok" ELSE "bad"

\* Lines 190-213: the rows from position k on.
RECURSIVE ShowRows(_, _, _, _)
ShowRows(st, pg, sg, k) ==
  IF k > Len(fields) THEN st
  ELSE ShowRows(Put(st, [t |-> "ROW", cat |-> fields[k], msg |-> 0,
                         what |-> RowMatch(pg, sg, fields[k])]),
                pg, sg, k + 1)

\* Lines 224-229: the rows of the value table from 0-based j on.
RECURSIVE ShowValues(_, _, _, _, _)
ShowValues(st, pg_vals, sg_vals, j, n) ==
  IF j >= n THEN st
  ELSE IF j >= Len(sg_vals) THEN Raise(st, "IndexError")
  ELSE ShowValues(
         Put(st, Line("VAL", j,
                      IF Abs(pg_vals[j + 1] - sg_vals[j + 1]) < DefaultTolerance
                      THEN "ok" ELSE "bad")),
         pg_vals, sg_vals, j + 1, n)

\* main's local state, as the record the stage operators work on.
Local == [all_match |-> all_match, issues |-> issues, out |-> out,
          cv_calls |-> cv_calls, err |-> err]

\* The local state st written back; the run crashes when st holds an
\* exception and goes on to position next otherwise.
Store(st, next) ==
  /\ all_match' = st.all_match
  /\ issues' = st.issues
  /\ out' = st.out
  /\ cv_calls' = st.cv_calls
  /\ err' = st.err
  /\ pc' = IF st.err # "none" THEN "crashed" ELSE next

otherVars == <<loadVars, cmpVars, extVars, windVars>>

\* Line 56: pygrib_data = load_json("pygrib_output.json")
LoadPygrib ==
  /\ pc = "load_pygrib"
  /\ \E text \in FileSet(PygribNames) :
       LET r == LoadJson(text)
       IN /\ had_marker' = [had_marker EXCEPT !.pygrib = TextKind(text)]
          /\ pygrib_data' = r.val
          /\ pc' = IF r.ok THEN "load_swift" ELSE "crashed"
          /\ err' = IF r.ok THEN "none" ELSE "JSONDecodeError"
  /\ UNCHANGED <<swift_data, i, all_match, issues, out, cv_calls, otherVars>>

\* Line 57: swift_data = load_json("swiftgrib_output.json")
LoadSwift ==
  /\ pc = "load_swift"
  /\ \E text \in FileSet(SwiftNames) :
       LET r == LoadJson(text)
       IN /\ had_marker' = [had_marker EXCEPT !.swift = TextKind(text)]
          /\ swift_data' = r.val
          /\ pc' = IF r.ok THEN "count" ELSE "crashed"
          /\ err' = IF r.ok THEN "none" ELSE "JSONDecodeError"
  /\ UNCHANGED <<pygrib_data, i, all_match, issues, out, cv_calls, otherVars>>

\* A bug the count check could have: the error is printed and the run
\* goes on.
CountCheckNoReturn ==
  IF Len(pygrib_data) # Len(swift_data)
  THEN [lines |-> <<Line("COUNTS", Len(pygrib_data), "Pygrib messages"),
                    Line("COUNTS", Len(swift_data), "SwiftGrib messages"),
                    Line("ERROR", 0, "Message count mismatch")>>,
        next |-> "loop"]
  ELSE [lines |-> <<Line("COUNTS", Len(pygrib_data), "Pygrib messages"),
                    Line("COUNTS", Len(swift_data), "SwiftGrib messages"),
                    Line("COMPARING", Len(pygrib_data), "Comparing")>>,
        next |-> "loop"]

\* Lines 59-66: what is printed, and where main goes: it returns when
\* the message counts differ.
CountCheck ==
  IF Len(pygrib_data) # Len(swift_data)
  THEN [lines |-> <<Line("COUNTS", Len(pygrib_data), "Pygrib messages"),
                    Line("COUNTS", Len(swift_data), "SwiftGrib messages"),
                    Line("ERROR", 0, "Message count mismatch")>>,
        next |-> "aborted"]
  ELSE [lines |-> <<Line("COUNTS", Len(pygrib_data), "Pygrib messages"),
                    Line("COUNTS", Len(swift_data), "SwiftGrib messages"),
                    Line("COMPARING", Len(pygrib_data), "Comparing")>>,
        next |-> "loop"]

\* Lines 59-76: the count check and the initialisation of the pass.
CheckCount ==
  /\ pc = "count"
  /\ out' = out \o CountCheck.lines
  /\ pc' = CountCheck.next
  /\ i' = 0
  /\ UNCHANGED <<err, pygrib_data, swift_data, all_match, issues, cv_calls,
                 had_marker, otherVars>>

\* Lines 78-135: one iteration of the comparison loop.
CompareMessage ==
  /\ pc = "loop"
  /\ i < Len(pygrib_data)
  /\ LET st == IF i >= Len(swift_data)   \* swift_data[i] raises IndexError
               THEN Raise(Local, "IndexError")
               ELSE CompareRecord(Local, pygrib_data[i + 1], swift_data[i + 1],
                                  i + 1)
     IN /\ Store(st, "loop")
        /\ i' = IF st.err # "none" THEN i ELSE i + 1
  /\ UNCHANGED <<pygrib_data, swift_data, had_marker, otherVars>>

\* Lines 137-152: the loop is over; the summary.
Summary ==
  /\ pc = "loop"
  /\ i >= Len(pygrib_data)
  /\ Store(Verdict(Put(Local, Line("SUMMARY", 0, "SUMMARY"))), "first_message")
  /\ UNCHANGED <<pygrib_data, swift_data, i, had_marker, otherVars>>

\* Lines 154-213: the field table of message index 0; pygrib_data[0]
\* raises IndexError on an empty list.
FirstMessageReport ==
  /\ pc = "first_message"
  /\ IF Len(pygrib_data) = 0 \/ Len(swift_data) = 0
     THEN Store(Raise(Put(Local, Line("FIRST_MESSAGE", 0, "header")),
                      "IndexError"), "first20")
     ELSE Store(ShowRows(Put(Local, Line("FIRST_MESSAGE", 0, "header")),
                         pygrib_data[1], swift_data[1], 1), "first20")
  /\ UNCHANGED <<pygrib_data, swift_data, i, had_marker, otherVars>>

\* Lines 215-229: the table of the first 20 values of message index 0.
First20Values ==
  /\ pc = "first20"
  /\ LET pg == pygrib_data[1]
         sg == swift_data[1]
         st1 == Put(Local, Line("FIRST_20", 0, "header"))
     IN IF "allValues" \in DOMAIN pg /\ "allValues" \in DOMAIN sg
        THEN Store(ShowValues(st1, pg.allValues, sg.allValues, 0,
                              Min(TableShown, Len(pg.allValues))), "done")
        ELSE Store(st1, "done")
  /\ UNCHANGED <<pygrib_data, swift_data, i, had_marker, otherVars>>

----------------------------------------------------------------------------
(* Values of the variables of a script that is not running.                *)

IdleMain ==
  /\ pc = "idle" /\ err = "none" /\ pygrib_data = <<>> /\ swift_data = <<>>
  /\ i = 0 /\ all_match = TRUE /\ issues = NoIssues /\ out = <<>>
  /\ cv_calls = 0 /\ had_marker = [pygrib |-> "unread", swift |-> "unread"]

IdleLoad ==
  content = <<>> /\ json_co = <<"pending">> /\ json_vw = <<"pending">>
  /\ loaded = "idle"

\* cmp_res before compare_values has returned.
NoResult == [match |-> FALSE, detail |-> "pending", max_diff |-> 0,
             max_diff_idx |-> 0, ndiffs |-> 0]

IdleCmp == cmp_a = <<>> /\ cmp_b = <<>> /\ cmp_tol = 0 /\ cmp_res = NoResult

IdleExt == xpc = "idle" /\ grbs = 0 /\ xi = 0 /\ info = <<>> /\ results = <<>>

IdlePolar ==
  /\ wind_u = [kind |-> "int", sign |-> 1, mag |-> "zero"]
  /\ wind_v = [kind |-> "int", sign |-> 1, mag |-> "zero"]
  /\ direction_cw = [deg |-> 0, rem |-> 0]
  /\ direction_vw = [deg |-> 0, rem |-> 0]
  /\ polar_done = {}

IdleWind == dir_sydney = 0 /\ compass = "idle" /\ IdlePolar

----------------------------------------------------------------------------
(* The direction calculation: check_wind.py 9-15 and                       *)
(* verify_wind_direction.py 58-61.                                         *)
(*                                                                         *)
(* A component is a Python int (the test cases of check_wind.py 119-128)   *)
(* or a double (grid values, JSON numbers).  It is kept as a sign and a    *)
(* magnitude class: "zero" (a double zero carries its sign bit), "one",    *)
(* and "tiny", a magnitude t > 0 so small against one that degrees(t) is   *)
(* below half the spacing of the doubles under 360 (t = 1e-20 is one).     *)
(* An angle is a whole number of degrees plus the sign of a remainder too  *)
(* small to move it off that number; -0.0 and 0.0, which compare equal,    *)
(* are both the angle 0.                                                   *)

Num(kind, sign, mag) == [kind |-> kind, sign |-> sign, mag |-> mag]

Ints == {Num("int", 1, "zero"), Num("int", 1, "one"), Num("int", -1, "one")}

Floats == {Num("float", s, m) : s \in {1, -1}, m \in {"zero", "tiny", "one"}}

Numbers == Ints \cup Floats

\* The unary minus of -u and -v: an int 0 stays 0, which arctan2 receives
\* as +0.0; a double has its sign bit flipped, zero included.
Negate(x) ==
  IF x.kind = "int" /\ x.mag = "zero" THEN x ELSE [x EXCEPT !.sign = -x.sign]

Angle(deg, rem) == [deg |-> deg, rem |-> rem]

\* np.degrees(np.arctan2(y, x)) in double arithmetic.  arctan2 of a zero y
\* is 0 or 180 by the sign bit of x; pi - t and pi/2 - t round to pi and
\* pi/2 for a tiny t, and only next to 0 does a tiny angle survive.
Arctan2Degrees(y, x) ==
  IF y.mag = "zero"
    THEN IF x.sign = 1 THEN Angle(0, 0) ELSE Angle(y.sign * 180, 0)
  ELSE IF x.mag = "zero" THEN Angle(y.sign * 90, 0)
  ELSE IF y.mag = x.mag
    THEN Angle(y.sign * (IF x.sign = 1 THEN 45 ELSE 135), 0)
  ELSE IF y.mag = "tiny"
    THEN IF x.sign = 1 THEN Angle(0, y.sign) ELSE Angle(y.sign * 180, 0)
  ELSE Angle(y.sign * 90, 0)

\* direction < 0
IsNegative(a) == a.deg < 0 \/ (a.deg = 0 /\ a.rem < 0)

\* direction + 360, rounded to the nearest double: a remainder next to 360
\* is lost, so that a tiny negative angle becomes 360.0 itself.
Plus360(a) == Angle(a.deg + 360, 0)

\* A bug the calculation could have: the bearing the wind blows TO,
\* arctan2(u, v).
CalcWindDirectionTo(u, v) ==
  LET direction == Arctan2Degrees(u, v)
  IN  IF IsNegative(direction) THEN Plus360(direction) ELSE direction

\* check_wind.py 13-14: np.where evaluates both operands, then selects.
\* The speed of line 11 takes no part in the direction and is left out.
CalcWindDirection(u, v) ==
  LET direction == Arctan2Degrees(Negate(u), Negate(v))
      shifted   == Plus360(direction)
  IN  IF IsNegative(direction) THEN shifted ELSE direction

\* verify_wind_direction.py 59-61: the if statement adds 360 in place.
InlineDirection(u, v) ==
  LET direction == Arctan2Degrees(Negate(u), Negate(v))
  IN  IF IsNegative(direction) THEN Plus360(direction) ELSE direction

----------------------------------------------------------------------------
(* Spec: a run of compare_outputs.py.                                      *)

Init ==
  /\ pc = "load_pygrib" /\ err = "none" /\ pygrib_data = <<>> /\ swift_data = <<>>
  /\ i = 0 /\ all_match = TRUE /\ issues = NoIssues /\ out = <<>>
  /\ cv_calls = 0 /\ had_marker = [pygrib |-> "unread", swift |-> "unread"]
  /\ IdleLoad /\ IdleCmp /\ IdleExt /\ IdleWind

Next ==
  \/ LoadPygrib
  \/ LoadSwift
  \/ CheckCount
  \/ CompareMessage
  \/ Summary
  \/ FirstMessageReport
  \/ First20Values

Spec == Init /\ [][Next]_vars

----------------------------------------------------------------------------
(* SpecLoad: the two copies of load_json on one text.                      *)

\* The symbols of the texts: the marker character, its closing
\* counterpart, a number literal, a blank and the line break.
Alphabet == {"[", "]", "1", " ", "\n"}

InitLoad ==
  /\ content \in SeqsUpTo(Alphabet, MaxLen)
  /\ json_co = <<"pending">> /\ json_vw = <<"pending">> /\ loaded = "pending"
  /\ IdleMain /\ IdleCmp /\ IdleExt /\ IdleWind

\* compare_outputs.load_json(content): the scan, then json.loads, which
\* returns a value or raises.
LoadCO ==
  /\ loaded = "pending"
  /\ json_co' = JsonContentCO(content)
  /\ loaded' = IF LoadJson(content).ok THEN "value" ELSE "error"
  /\ UNCHANGED <<content, json_vw, mainVars, cmpVars, extVars, windVars>>

\* verify_wind_direction.load_json(content), up to its call of json.loads.
LoadVW ==
  /\ json_vw = <<"pending">>
  /\ json_vw' = JsonContentVW(content)
  /\ UNCHANGED <<content, json_co, loaded, mainVars, cmpVars, extVars, windVars>>

NextLoad == LoadCO \/ LoadVW

SpecLoad == InitLoad /\ [][NextLoad]_vars

----------------------------------------------------------------------------
(* SpecCompare: compare_values on one pair of arrays.                      *)

InitCompare ==
  /\ cmp_a \in SeqsUpTo(0..MaxVal, MaxArr)
  /\ cmp_b \in SeqsUpTo(0..MaxVal, MaxArr)
  /\ cmp_tol \in 0..MaxVal
  /\ cmp_res = NoResult
  /\ IdleMain /\ IdleLoad /\ IdleExt /\ IdleWind

\* cmp_res = compare_values(cmp_a, cmp_b, cmp_tol)
ApplyCompare ==
  /\ cmp_res.detail = "pending"
  /\ cmp_res' = CompareValues(cmp_a, cmp_b, cmp_tol)
  /\ UNCHANGED <<cmp_a, cmp_b, cmp_tol, mainVars, loadVars, extVars, windVars>>

NextCompare == ApplyCompare

SpecCompare == InitCompare /\ [][NextCompare]_vars

----------------------------------------------------------------------------
(* SpecExtract: a run of compare_pygrib.py (lines 17-88).                  *)

\* The flattened value arrays a message may hold: none, fewer than the
\* three the spot checks index, three, and more than the ten a sample holds.
GribValues ==
  {<<>>, <<1, 3>>, <<1, 2, 3>>, <<2, 4, 6, 8, 10, 12, 14, 16, 18, 20, 22, 24>>}

RECURSIVE SeqSum(_)
SeqSum(v) == IF v = <<>> THEN 0 ELSE v[1] + SeqSum(Tail(v))

RECURSIVE SeqMin(_)
SeqMin(v) == IF Len(v) = 1 THEN v[1] ELSE Min(v[1], SeqMin(Tail(v)))

RECURSIVE SeqMax(_)
SeqMax(v) ==
  IF Len(v) = 1 THEN v[1]
  ELSE IF v[1] > SeqMax(Tail(v)) THEN v[1] ELSE SeqMax(Tail(v))

\* values[:10] and values[-10:]
SampleSize == 10
Head10(v) == SubSeq(v, 1, Min(SampleSize, Len(v)))
Tail10(v) == SubSeq(v, IF Len(v) > SampleSize THEN Len(v) - SampleSize + 1 ELSE 1, Len(v))

\* The selection rule of line 68: 5 messages, blocks of 51, 2 of each.
FirstFull == 5
BlockSize == 51
FullPerBlock == 2

\* A bug the selection could have: the block rule is left out.
SelectedFirstOnly(msg_num) == msg_num <= FirstFull

\* msg_num <= 5 or (msg_num - 1) % 51 < 2   (line 68)
Selected(msg_num) ==
  msg_num <= FirstFull \/ (msg_num - 1) % BlockSize < FullPerBlock

\* Lines 58-65: the keys every record gets, before the selection.
SampledInfo(msg_num, values) ==
  [message |-> msg_num, numValues |-> Len(values),
   min |-> SeqMin(values), max |-> SeqMax(values),
   mean |-> SeqSum(values) \div Len(values),
   first10 |-> Head10(values), last10 |-> Tail10(values)]

\* d with key k set to v.
WithKey(d, k, v) == [x \in DOMAIN d \cup {k} |-> IF x = k THEN v ELSE d[x]]

\* Lines 56-69: the value part of the record of message msg_num.
BuildInfo(msg_num, values) ==
  IF Selected(msg_num)
  THEN WithKey(SampledInfo(msg_num, values), "allValues", values)
  ELSE SampledInfo(msg_num, values)

InitExtract ==
  /\ xpc = "loop" /\ grbs \in 0..MaxGrbs /\ xi = 0 /\ info = <<>> /\ results = <<>>
  /\ IdleMain /\ IdleLoad /\ IdleCmp /\ IdleWind

\* Lines 22-83: one iteration for the message of ordinal xi + 1, on a value
\* array that lets the record be built (its min exists, line 59, and the
\* spot checks of lines 72-74 find their indices).  results keeps each
\* record's ordinal and keys; info keeps the record itself.
ProcessMessage ==
  /\ xpc = "loop" /\ xi < grbs
  /\ \E values \in {v \in GribValues : Len(v) >= 3} :
       /\ info' = BuildInfo(xi + 1, values)
       /\ results' = Append(results, [message |-> xi + 1,
                                      keys |-> DOMAIN BuildInfo(xi + 1, values)])
  /\ xi' = xi + 1
  /\ UNCHANGED <<xpc, grbs, mainVars, loadVars, cmpVars, windVars>>

\* Lines 59 and 74: values.min() raises ValueError on an empty array and
\* values[idx] raises IndexError on one with fewer than three elements; no
\* record of that message is appended and nothing is printed.
ProcessMessageRaises ==
  /\ xpc = "loop" /\ xi < grbs
  /\ \E values \in {v \in GribValues : Len(v) < 3} : xpc' = "crashed"
  /\ UNCHANGED <<grbs, xi, info, results, mainVars, loadVars, cmpVars, windVars>>

\* Lines 85-88: the loop is over; the records are printed.
Dump ==
  /\ xpc = "loop" /\ xi >= grbs
  /\ xpc' = "done"
  /\ UNCHANGED <<grbs, xi, info, results, mainVars, loadVars, cmpVars, windVars>>

NextExtract == ProcessMessage \/ ProcessMessageRaises \/ Dump

SpecExtract == InitExtract /\ [][NextExtract]_vars

----------------------------------------------------------------------------
(* SpecCompass: the compass classification of check_wind.py (88-104).      *)
(* A direction is a count of half degrees: 22.5 is 45 and 337.5 is 675.    *)

\* A bug the chain could have: the boundaries belong to the sector below.
CompassBoundaryBelow(d) ==
  IF 675 < d \/ d <= 45 THEN "N"
  ELSE IF 45 < d /\ d <= 135 THEN "NE"
  ELSE IF 135 < d /\ d <= 225 THEN "E"
  ELSE IF 225 < d /\ d <= 315 THEN "SE"
  ELSE IF 315 < d /\ d <= 405 THEN "S"
  ELSE IF 405 < d /\ d <= 495 THEN "SW"
  ELSE IF 495 < d /\ d <= 585 THEN "W"
  ELSE "NW"

\* Lines 89-104: the if/elif chain.
Compass(d) ==
  IF 675 <= d \/ d < 45 THEN "N"
  ELSE IF 45 <= d /\ d < 135 THEN "NE"
  ELSE IF 135 <= d /\ d < 225 THEN "E"
  ELSE IF 225 <= d /\ d < 315 THEN "SE"
  ELSE IF 315 <= d /\ d < 405 THEN "S"
  ELSE IF 405 <= d /\ d < 495 THEN "SW"
  ELSE IF 495 <= d /\ d < 585 THEN "W"
  ELSE "NW"

\* dir_sydney is any direction of [0, 360).
InitCompass ==
  /\ dir_sydney \in 0..719 /\ compass = "unset"
  /\ IdleMain /\ IdleLoad /\ IdleCmp /\ IdleExt /\ IdlePolar

Classify ==
  /\ compass = "unset"
  /\ compass' = Compass(dir_sydney)
  /\ UNCHANGED <<dir_sydney, polarVars, mainVars, loadVars, cmpVars, extVars>>

NextCompass == Classify

SpecCompass == InitCompass /\ [][NextCompass]_vars

----------------------------------------------------------------------------
(* SpecPolar: both direction calculations applied to one pair (u, v).      *)

InitPolar ==
  /\ wind_u \in Numbers /\ wind_v \in Numbers
  /\ direction_cw = Angle(0, 0) /\ direction_vw = Angle(0, 0)
  /\ polar_done = {}
  /\ dir_sydney = 0 /\ compass = "idle"
  /\ IdleMain /\ IdleLoad /\ IdleCmp /\ IdleExt

\* check_wind.py 55, 81, 131: speed, direction = calc_wind_direction(u, v)
CallCalcWindDirection ==
  /\ "calc" \notin polar_done
  /\ direction_cw' = CalcWindDirection(wind_u, wind_v)
  /\ polar_done' = polar_done \cup {"calc"}
  /\ UNCHANGED <<wind_u, wind_v, direction_vw, compassVars,
                 mainVars, loadVars, cmpVars, extVars>>

\* verify_wind_direction.py 59-61 (and 70-72 for the Sydney index).
InlineCalculation ==
  /\ "inline" \notin polar_done
  /\ direction_vw' = InlineDirection(wind_u, wind_v)
  /\ polar_done' = polar_done \cup {"inline"}
  /\ UNCHANGED <<wind_u, wind_v, direction_cw, compassVars,
                 mainVars, loadVars, cmpVars, extVars>>

NextPolar ==
  \/ CallCalcWindDirection
  \/ InlineCalculation

SpecPolar == InitPolar /\ [][NextPolar]_vars

----------------------------------------------------------------------------
(* The claims.                                                             *)

\* A line of kind t has been printed.
HasLine(t) == \E k \in 1..Len(out) : out[k].t = t

\* Both files are loaded: main is past line 57.
BothLoaded == pc \notin {"idle", "load_pygrib", "load_swift"} /\ err # "JSONDecodeError"

\* The discrepancies of category cat that name message k.
IssuesOf(cat, k) == SelectSeq(issues[cat], LAMBDA x : x.msg = k)

\* C1: once the summary of a run over two sequences of equal length N >= 1
\* is printed, the verdict is "all match" if and only if all four category
\* buckets are empty.
C1_VerdictIffNoDiscrepancy ==
  (HasLine("SUMMARY") /\ Len(pygrib_data) >= 1)
    => (HasLine("ALL_MATCH") <=> issues = NoIssues)

\* The two value arrays the pass compares for a record pair differ in
\* element count.
ArrayLengthMismatch(pg, sg) ==
  IF "allValues" \in DOMAIN pg /\ "allValues" \in DOMAIN sg
  THEN Len(pg.allValues) # Len(sg.allValues)
  ELSE /\ {"first10", "last10"} \subseteq DOMAIN pg
       /\ {"first10", "last10"} \subseteq DOMAIN sg
       /\ (Len(pg.first10) # Len(sg.first10) \/ Len(pg.last10) # Len(sg.last10))

\* C2: a length mismatch of the value arrays of message k is not fatal: the
\* run never stops with an IndexError while it processes message k.
C2_LengthMismatchNonFatal ==
  \A k \in 1..Len(pygrib_data) :
     (BothLoaded /\ k <= Len(swift_data)
        /\ ArrayLengthMismatch(pygrib_data[k], swift_data[k]))
       => ~(pc = "crashed" /\ err = "IndexError" /\ i = k - 1)

\* key is absent from one or both records.
Missing(pg, sg, key) == key \notin DOMAIN pg \/ key \notin DOMAIN sg

\* key is present in both records, with the same value.
SameField(pg, sg, key) ==
  key \in DOMAIN pg /\ key \in DOMAIN sg /\ pg[key] = sg[key]

\* C3: the absence of a compared field is never a mismatch and never an
\* error: for a pair k that lacks Ni (and agrees on Nj) no grid discrepancy
\* is recorded, and for a pair k that lacks min, max or mean the run does
\* not stop with a KeyError at k.
C3_AbsenceNeverMismatch ==
  \A k \in 1..Len(pygrib_data) :
     (BothLoaded /\ k <= Len(swift_data)) =>
       LET pg == pygrib_data[k]
           sg == swift_data[k]
       IN /\ (Missing(pg, sg, "Ni") /\ SameField(pg, sg, "Nj"))
               => IssuesOf("grid", k) = <<>>
          /\ (\E key \in {"min", "max", "mean"} : Missing(pg, sg, key))
               => ~(pc = "crashed" /\ err = "KeyError" /\ i = k - 1)

\* Position p of text starts a line.
LineStart(text, p) == p = 1 \/ text[p - 1] = "\n"

\* The line of text that starts at position p.
LineAt(text, p) ==
  LET stop == {q \in p..Len(text) : text[q] = "\n"}
  IN SubSeq(text, p, IF stop = {} THEN Len(text)
                     ELSE (CHOOSE q \in stop : \A r \in stop : q <= r) - 1)

\* The positions at which a marker line starts: a line whose symbols other
\* than whitespace are one "[".
MarkerStarts(text) ==
  {p \in 1..Len(text) :
     /\ LineStart(text, p)
     /\ SelectSeq(LineAt(text, p), LAMBDA c : c \notin Whitespace) = <<"[">>}

\* The text from its first marker line on, unmodified; empty without one.
SuffixFromMarker(text) ==
  IF MarkerStarts(text) = {} THEN <<>>
  ELSE SubSeq(text,
              CHOOSE p \in MarkerStarts(text) : \A q \in MarkerStarts(text) : p <= q,
              Len(text))

\* C4: each copy of load_json hands to the parser exactly the text from the
\* first marker line on (lines before it dropped, that line and all later
\* ones kept unmodified, a later marker line kept as payload), so the two
\* copies hand over the same text.
C4_SuffixFromFirstMarker ==
  /\ json_co # <<"pending">> => json_co = SuffixFromMarker(content)
  /\ json_vw # <<"pending">> => json_vw = SuffixFromMarker(content)

\* C4 witness: a text with a line before the marker line and a second
\* marker line after it, scanned by both copies.
C4_Witness ==
  /\ content = <<"1", "\n", "[", "\n", "[">>
  /\ json_co = <<"[", "\n", "[">>
  /\ json_vw = <<"[", "\n", "[">>

\* The indices of a and b whose elements differ by more than t.
Differing(a, b, t) == {k \in 1..Len(a) : Abs(a[k] - b[k]) > t}

\* C5: for arrays of equal length compare_values passes if and only if no
\* element pair differs by more than the tolerance (a difference equal to
\* the tolerance passes); when it fails, the count it reports is the number
\* of pairs that differ by more and the maximum it reports is the largest
\* difference of all pairs.
C5_PassIffWithinTolerance ==
  (cmp_res.detail # "pending" /\ Len(cmp_a) = Len(cmp_b)) =>
    /\ cmp_res.match <=> Differing(cmp_a, cmp_b, cmp_tol) = {}
    /\ ~cmp_res.match =>
         /\ cmp_res.ndiffs = Cardinality(Differing(cmp_a, cmp_b, cmp_tol))
         /\ \A k \in 1..Len(cmp_a) : Abs(cmp_a[k] - cmp_b[k]) <= cmp_res.max_diff
         /\ \E k \in 1..Len(cmp_a) : Abs(cmp_a[k] - cmp_b[k]) = cmp_res.max_diff

\* C5 witness: one pair differs by exactly the tolerance and one by more;
\* the comparison fails and counts one.
C5_Witness ==
  /\ cmp_a = <<0, 2>> /\ cmp_b = <<1, 0>> /\ cmp_tol = 1
  /\ cmp_res.detail # "pending" /\ ~cmp_res.match
  /\ cmp_res.ndiffs = 1 /\ cmp_res.max_diff = 2

\* C6: when the two loaded sequences differ in length the run aborts before
\* the comparison pass (no per-message line, no call of compare_values, no
\* discrepancy, no summary, no first-message report), and the pass is
\* entered only with equal lengths.
C6_CountMismatchAborts ==
  (BothLoaded /\ Len(pygrib_data) # Len(swift_data)) =>
    /\ pc \in {"count", "aborted"}
    /\ cv_calls = 0
    /\ issues = NoIssues
    /\ \A k \in 1..Len(out) : out[k].t \in {"COUNTS", "ERROR"}

\* C6 witness: a run on sequences of lengths 1 and 2 that has aborted.
C6_Witness ==
  /\ pc = "aborted" /\ HasLine("ERROR")
  /\ Len(pygrib_data) = 1 /\ Len(swift_data) = 2

\* The records of a pair agree in the arrays, min, max, the grid and the
\* parameter indicator, and their means differ by more than 1e-4.
MeanOnlyPair(pg, sg) ==
  /\ \A key \in {"allValues", "first10", "last10", "min", "max", "Ni", "Nj",
                 "indicatorOfParameter"} : SameField(pg, sg, key)
  /\ ~Missing(pg, sg, "mean")
  /\ Abs(pg.mean - sg.mean) > MeanTolerance

\* C7: for a pair k that differs only in its mean, exactly one discrepancy
\* is recorded, in the values category, naming the mean of message k, and
\* the summary shows it in its VALUES section; nothing is recorded for k in
\* the other categories.
C7_MeanDiscrepancyReported ==
  \A k \in 1..Len(pygrib_data) :
     (HasLine("SUMMARY") /\ k <= Len(swift_data)
        /\ MeanOnlyPair(pygrib_data[k], swift_data[k])) =>
       /\ IssuesOf("values", k) = <<Issue(k, "mean")>>
       /\ \A cat \in {"metadata", "grid", "time"} : IssuesOf(cat, k) = <<>>
       /\ \E n \in 1..Len(out) : out[n] = ItemLine("values", Issue(k, "mean"))

\* The payload keys of a record.
HasFull(keys) == "allValues" \in keys
HasSamples(keys) == "first10" \in keys /\ "last10" \in keys

\* C8 as stated: every record emitted carries min, max and mean and
\* exactly one of the two payloads, allValues or first10/last10.
C8_ExactlyOnePayload ==
  \A k \in 1..Len(results) :
     /\ {"min", "max", "mean"} \subseteq results[k].keys
     /\ HasFull(results[k].keys) # HasSamples(results[k].keys)
     /\ HasFull(results[k].keys) => results[k].keys \cap {"first10", "last10"} = {}

\* C8 amended: every record emitted carries min, max, mean, first10 and
\* last10, and carries allValues as well exactly when its ordinal is at
\* most 5 or is the first or second of a block of 51.
C8_SamplesAlwaysFullWhenSelected ==
  \A k \in 1..Len(results) :
     /\ results[k].message = k
     /\ {"min", "max", "mean", "first10", "last10"} \subseteq results[k].keys
     /\ HasFull(results[k].keys) <=>
          (k \in 1..5 \/ \E b \in 0..k : k \in {51 * b + 1, 51 * b + 2})

\* C8 witness: a run that has emitted a record past the first block whose
\* ordinal selects it (53) and records that are not selected (6, 51).
C8_Witness ==
  /\ Len(results) >= 53
  /\ HasFull(results[53].keys) /\ HasSamples(results[53].keys)
  /\ ~HasFull(results[6].keys) /\ ~HasFull(results[51].keys)
  /\ HasFull(results[52].keys) /\ HasFull(results[5].keys)

\* C9: when a text read has no marker line, also when the text as it
\* stands is a JSON array, load_json raises: the run has stopped with the
\* parse error, no record was compared and no discrepancy recorded.
C9_NoMarkerAborts ==
  \A f \in {"pygrib", "swift"} :
     had_marker[f] \in {"json_without_marker", "no_json"} =>
       /\ pc = "crashed" /\ err = "JSONDecodeError"
       /\ (IF f = "pygrib" THEN pygrib_data ELSE swift_data) = <<>>
       /\ cv_calls = 0 /\ issues = NoIssues
       /\ ~HasLine("OK") /\ ~HasLine("FAIL") /\ ~HasLine("SUMMARY")

\* C9 witness: the reference file loaded, the other file held its array on
\* one line, and the run has stopped.
C9_Witness ==
  /\ had_marker = [pygrib |-> "marker", swift |-> "json_without_marker"]
  /\ Len(pygrib_data) >= 1
  /\ pc = "crashed" /\ err = "JSONDecodeError"

\* The sectors in the order of their centers 0, 45, ..., 315 degrees.
Sectors == <<"N", "NE", "E", "SE", "S", "SW", "W", "NW">>

\* C10: every direction of [0, 360) gets exactly one sector, the one whose
\* center c (a multiple of 45 degrees) satisfies c - 22.5 <= d < c + 22.5
\* around the circle, so that each boundary belongs to the sector that
\* starts there and N is [337.5, 360) with [0, 22.5).
C10_NearestSector ==
  compass # "unset" =>
    /\ compass \in {Sectors[k] : k \in 1..8}
    /\ \A k \in 1..8 :
         compass = Sectors[k] <=> (dir_sydney - 90 * (k - 1) + 45) % 720 < 90

\* C10 witness: the boundary 22.5 classified as NE.
C10_Witness == dir_sydney = 45 /\ compass = "NE"

\* The number n of {-1, 0, 1} as a component: the int n, the double n, and
\* for 0 the double -0.0 as well.
IsValue(x, n) ==
  IF n = 0 THEN x.mag = "zero" ELSE x.mag = "one" /\ x.sign = n

\* The direction of the calculation named who.
DirectionOf(who) == IF who = "calc" THEN direction_cw ELSE direction_vw

\* Rows <<u, v, degrees>>.
Holds(table, who) ==
  \A k \in 1..Len(table) :
     IsValue(wind_u, table[k][1]) /\ IsValue(wind_v, table[k][2])
       => DirectionOf(who) = Angle(table[k][3], 0)

\* The eight unit inputs with the bearings the claim lists.
ListedBearings ==
  << <<0, -1, 0>>, <<1, 0, 90>>, <<0, 1, 180>>, <<-1, 0, 270>>,
     <<1, -1, 45>>, <<-1, -1, 135>>, <<-1, 1, 225>>, <<1, 1, 315>> >>

\* The eight unit inputs with the bearing the wind comes from, as the
\* descriptions of check_wind.py 119-128 name it.
FromBearings ==
  << <<0, -1, 0>>, <<1, 0, 270>>, <<0, 1, 180>>, <<-1, 0, 90>>,
     <<1, -1, 315>>, <<-1, -1, 45>>, <<-1, 1, 135>>, <<1, 1, 225>> >>

\* C11 as stated: the eight unit inputs give 0, 90, 180, 270, 45, 135, 225
\* and 315 degrees in the order (0,-1), (1,0), (0,1), (-1,0), (1,-1),
\* (-1,-1), (-1,1), (1,1); no direction is negative or 360 or more; and
\* the two calculations give the same direction.
C11_ListedBearings ==
  /\ \A who \in polar_done :
       /\ Holds(ListedBearings, who)
       /\ ~IsNegative(DirectionOf(who))
       /\ DirectionOf(who).deg < 360
  /\ polar_done = {"calc", "inline"} => direction_cw = direction_vw

\* C11, amended: the eight unit inputs give the bearing the wind comes
\* from, 0, 270, 180, 90, 315, 45, 135 and 225 degrees in the same order;
\* no direction is negative or above 360, and a direction is 360 exactly
\* when u is positive and tiny against a negative v of magnitude one, the
\* case where adding 360 to a tiny negative angle rounds to 360.0; and the
\* two calculations give the same direction.
C11_FromBearing ==
  /\ \A who \in polar_done :
       /\ Holds(FromBearings, who)
       /\ ~IsNegative(DirectionOf(who))
       /\ DirectionOf(who).deg <= 360
       /\ DirectionOf(who).deg = 360
            <=> wind_u = Num("float", 1, "tiny") /\ IsValue(wind_v, -1)
  /\ polar_done = {"calc", "inline"} => direction_cw = direction_vw

\* C11 witness: (1, 0), the wind from the west, through both calculations.
C11_Witness ==
  /\ wind_u = Num("int", 1, "one") /\ wind_v = Num("int", 1, "zero")
  /\ polar_done = {"calc", "inline"}
  /\ direction_cw = Angle(270, 0) /\ direction_vw = Angle(270, 0)

====
